---- MODULE Spec2Model ----
(***************************************************************************)
(* TimeDilationSimulator (src/TimeDilationSimulator.py): the constructor,  *)
(* generate_initial_pattern and run_simulation, stepped one transform      *)
(* invocation at a time.                                                   *)
(*                                                                         *)
(* Numbers.  The program computes in IEEE binary64.  The model keeps the   *)
(* same arithmetic (every operation rounds its exact result to the nearest *)
(* representable value, ties to even) in a scaled-down binary format: a    *)
(* value is an integer count of units of 2^-FracBits and a representable   *)
(* value has at most Precision significant bits.                           *)
(*                                                                         *)
(* Collaborator.  Pi2Framework / cosmo.propagate_vibration is not part of  *)
(* the source file; it is an opaque callable.  transform names the stub    *)
(* that stands for it in one scenario.                                     *)
(***************************************************************************)
EXTENDS Integers, Sequences, FiniteSets, TLC

\* ---------------------------------------------------------------- bounds
Precision == 4
FracBits == 4
PatLen == 2
MaxN == 2
MaxD == 3
RngMod == 8

\* ------------------------------------------------- scaled binary floating point
Unit == 2^FracBits

Abs(x) == IF x < 0 THEN 0 - x ELSE x

RECURSIVE ExpOf(_, _, _)
ExpOf(num, den, e) ==
    IF num \div (den * 2^e) < 2^Precision THEN e ELSE ExpOf(num, den, e + 1)

\* nearest representable value to num/den units (num >= 0, den > 0), ties to even
RoundMag(num, den) ==
    LET e   == ExpOf(num, den, 0)
        sc  == den * 2^e
        m   == num \div sc
        rem == num - m * sc
        up  == 2 * rem > sc \/ (2 * rem = sc /\ m % 2 = 1)
    IN  (IF up THEN m + 1 ELSE m) * 2^e

RoundRat(num, den) ==
    IF num < 0 THEN 0 - RoundMag(0 - num, den) ELSE RoundMag(num, den)

FAdd(a, b) == RoundRat(a + b, 1)
FSub(a, b) == RoundRat(a - b, 1)
FMul(a, b) == RoundRat(a * b, Unit)
FDiv(a, b) == IF b < 0 THEN RoundRat(0 - a * Unit, 0 - b) ELSE RoundRat(a * Unit, b)

RECURSIVE ISqrtFrom(_, _)
ISqrtFrom(n, r) == IF (r + 1) * (r + 1) > n THEN r ELSE ISqrtFrom(n, r + 1)
ISqrt(n) == ISqrtFrom(n, 0)

RECURSIVE SqrtExp(_, _)
SqrtExp(r, e) == IF r \div 2^e < 2^Precision THEN e ELSE SqrtExp(r, e + 1)

\* nearest representable value to sqrt(a) for a >= 0 (a in units), ties to even
FSqrt(a) ==
    LET n  == a * Unit
        e  == SqrtExp(ISqrt(n), 0)
        m  == ISqrt(n) \div 2^e
        lo == m * 2^e
        hi == lo + 2^e
        c  == 4 * n - (lo + hi) * (lo + hi)
    IN  IF c > 0 \/ (c = 0 /\ m % 2 = 1) THEN hi ELSE lo

\* ------------------------------------------------------------- numpy reductions
RECURSIVE FSum(_)
FSum(s) == IF s = <<>> THEN 0 ELSE FAdd(FSum(SubSeq(s, 1, Len(s) - 1)), s[Len(s)])

np_mean(p) == FDiv(FSum(p), Len(p) * Unit)

np_abs(p) == [k \in 1..Len(p) |-> Abs(p[k])]

np_var(p) ==
    LET mu == np_mean(p)
    IN  np_mean([k \in 1..Len(p) |-> FMul(FSub(p[k], mu), FSub(p[k], mu))])

\* 1e-12 of line 71, scaled: the smallest positive value of the format
Epsilon == 1

mean_abs(p) == np_mean(np_abs(p))
structure_bonus(p) == FSqrt(FAdd(np_var(p), Epsilon))
StepStatisticNoBonus(p) == mean_abs(p)
StepStatistic(p) == FAdd(mean_abs(p), structure_bonus(p))

\* ------------------------------------------------------------------- patterns
NoPattern == <<>>
Zeros == [k \in 1..PatLen |-> 0]
Alternating == [k \in 1..PatLen |-> IF k % 2 = 1 THEN Unit ELSE 0 - Unit]
Lows == [k \in 1..PatLen |-> 0 - (Unit \div 2)]
\* the arrays a caller supplies and a nondeterministic stub returns
Patterns == {Alternating, Lows}

\* ------------------------------------------------ constructor defaults (line 35)
flat_position_ratio == RoundRat(5 * Unit, 10)
dilated_position_ratio == RoundRat(2 * Unit, 10)
Seeds == {1, 2}
Instances == {"A", "B"}

\* ------------------------------------------------------- process-wide np.random
SeedState(seed) == (3 * seed + 1) % RngMod
RngNext(s) == (5 * s + 3) % RngMod

RECURSIVE RngAfter(_, _)
RngAfter(s, k) == IF k = 0 THEN s ELSE RngNext(RngAfter(s, k - 1))

\* one standard-normal draw, taken from the state the draw leaves behind
randn(s) == ((s % 3) - 1) * Unit

\* np.random.randn(pattern_size) * 0.3 + 0.5 drawn from generator state s
generate_initial_pattern(s) ==
    [k \in 1..PatLen |->
        FAdd(FMul(randn(RngAfter(s, k)), RoundRat(3 * Unit, 10)), RoundRat(Unit, 2))]

\* ------------------------------------------------------------------ the heap
\* init: the caller's (or generated) array; flat, dil: the two .copy() results;
\* out: the array most recently allocated by the transform
Bufs == {"init", "flat", "dil", "out"}

CopyTargetAlias(src, fresh) == src
CopyTarget(src, fresh) == fresh

\* h after "dst = src.copy()" binds the name to buffer CopyTarget(src, dst)
CopyInto(h, src, dst) == [h EXCEPT ![CopyTarget(src, dst)] = h[src]]

\* buffers no name refers to any more are dropped
Collect(h, live) == [b \in Bufs |-> IF b \in live THEN h[b] ELSE NoPattern]

\* ------------------------------------------------ the collaborator (stubbed)
DeterministicTransforms == {"identity", "zero", "raising", "brittle"}
Transforms == DeterministicTransforms \cup {"arbitrary", "inplace"}

Returned(h, ret) == [raised |-> FALSE, ret |-> ret, heap |-> h]
Raised(h, arg) == [raised |-> TRUE, ret |-> arg, heap |-> h]

\* the possible outcomes of propagate_vibration(h[arg], distance, position_ratio)
propagate_vibration(t, h, arg, distance) ==
    CASE t = "identity"  -> {Returned(h, arg)}
      [] t = "zero"      -> {Returned([h EXCEPT !["out"] = Zeros], "out")}
      [] t = "raising"   -> {Raised(h, arg)}
      [] t = "brittle"   -> {IF distance < Unit THEN Raised(h, arg) ELSE Returned(h, arg)}
      [] t = "arbitrary" -> {Returned([h EXCEPT !["out"] = p], "out") : p \in Patterns}
                              \cup {Raised(h, arg)}
      [] t = "inplace"   -> {Returned([h EXCEPT ![arg] = p], arg) : p \in Patterns}

\* ------------------------------------------------------------ result records
NoResult == [returned |-> FALSE]
NoCall == [zone |-> "none", distance |-> 0, position_ratio |-> 0,
           out |-> NoPattern, raised |-> FALSE]
NoCalls == [flat |-> 0, dilated |-> 0]

ZoneResult(p, accum) ==
    [final_mean_abs |-> mean_abs(p), final_variance |-> np_var(p),
     accumulated_computation |-> accum]

Infinity == [inf |-> TRUE, err |-> FALSE, val |-> 0]
Finite(v) == [inf |-> FALSE, err |-> FALSE, val |-> v]
ZeroDivisionError == [inf |-> FALSE, err |-> TRUE, val |-> 0]

\* Python's "/" on two floats
TrueDiv(a, b) == IF b = 0 THEN ZeroDivisionError ELSE Finite(FDiv(a, b))

performance_ratio_unguarded(dilated, flat) == TrueDiv(dilated, flat)
performance_ratio(dilated, flat) ==
    IF flat > 0 THEN TrueDiv(dilated, flat) ELSE Infinity

\* what the caller receives from a call that raised: there is no try/except
PropagatedPartial(results) == [returned |-> TRUE] @@ results
Propagated(results) == NoResult

\* the distance argument of each zone
flat_distance == Unit
dilated_distance_coarse(d) == Unit
dilated_distance(d) == FDiv(Unit, d * Unit)

\* loop limits: range(num_external_steps), range(dilation_factor)
ExternalLimitOffByOne(n) == n + 1
ExternalLimit(n) == n
InnerLimit(d) == d

AccumulateLast(accum, stat) == stat
Accumulate(accum, stat) == FAdd(accum, stat)

VARIABLES
    transform,        \* which stub stands for fw.cosmo.propagate_vibration
    sims,             \* the simulator instances of the scenario
    suppliable,       \* the initial_pattern arguments of the scenario (NoPattern: None)
    sim,              \* per instance: constructed, num_external_steps, dilation_factor, seed
    rng,              \* state of the process-wide np.random generator
    status,           \* per instance: "new", "ready", "running", "returned", "raised"
    result,           \* per instance: what run_simulation handed to its caller
    error,            \* per instance: the exception that left run_simulation
    cur,              \* the instance whose run_simulation is executing
    pc,               \* "idle", "flat", "dilated"
    heap,             \* contents of the arrays
    flat_pattern, dilated_pattern,   \* the buffer each name is bound to
    flat_accum, dilated_accum,
    ext, inner,       \* loop indices
    results,          \* the dict being filled
    given,            \* per instance: TRUE iff the caller supplied initial_pattern
    initial_value,    \* per instance: value of initial_pattern on entry to run_simulation
    calls,            \* per instance: invocations counted by the stub, per zone
    lastCall,         \* the most recent invocation
    stepDist          \* running sum of the distances passed during one external step

vars == <<transform, sims, suppliable, sim, rng, status, result, error, cur, pc, heap,
          flat_pattern, dilated_pattern, flat_accum, dilated_accum, ext, inner,
          results, given, initial_value, calls, lastCall, stepDist>>

runLocals == <<heap, flat_pattern, dilated_pattern, flat_accum, dilated_accum,
               ext, inner, results, lastCall, stepDist>>

NoSim == [constructed |-> FALSE, num_external_steps |-> 0, dilation_factor |-> 0, seed |-> 0]
EmptyHeap == [b \in Bufs |-> NoPattern]

InitCommon ==
    /\ sim = [i \in Instances |-> NoSim]
    /\ rng = 0
    /\ status = [i \in Instances |-> "new"]
    /\ result = [i \in Instances |-> NoResult]
    /\ error = [i \in Instances |-> "none"]
    /\ cur = "none"
    /\ pc = "idle"
    /\ heap = EmptyHeap
    /\ flat_pattern = "init"
    /\ dilated_pattern = "init"
    /\ flat_accum = 0
    /\ dilated_accum = 0
    /\ ext = 0
    /\ inner = 0
    /\ results = <<>>
    /\ given = [i \in Instances |-> FALSE]
    /\ initial_value = [i \in Instances |-> NoPattern]
    /\ calls = [i \in Instances |-> NoCalls]
    /\ lastCall = NoCall
    /\ stepDist = 0

\* one simulator, any collaborator
Init ==
    /\ transform \in Transforms
    /\ sims = {"A"}
    /\ suppliable = Patterns \cup {NoPattern}
    /\ InitCommon

\* two simulators in one process, a collaborator without randomness
InitTwo ==
    /\ transform \in DeterministicTransforms
    /\ sims = Instances
    /\ suppliable = {NoPattern, Alternating}
    /\ InitCommon

\* __init__(num_external_steps = n, dilation_factor = d, seed = sd)
Construct(i, n, d, sd) ==
    /\ pc = "idle"
    /\ status[i] = "new"
    /\ sim' = [sim EXCEPT ![i] = [constructed |-> TRUE, num_external_steps |-> n,
                                  dilation_factor |-> d, seed |-> sd]]
    /\ rng' = SeedState(sd)
    /\ status' = [status EXCEPT ![i] = "ready"]
    /\ UNCHANGED <<transform, sims, suppliable, result, error, cur, pc, calls, given,
                   initial_value>>
    /\ UNCHANGED runLocals

\* run_simulation, lines 56-66: up to the first test of the flat loop
RunBegin(i, supplied) ==
    /\ pc = "idle"
    /\ status[i] = "ready"
    /\ LET initial == IF supplied = NoPattern THEN generate_initial_pattern(rng)
                      ELSE supplied
           h0 == [EmptyHeap EXCEPT !["init"] = initial]
       IN  /\ rng' = IF supplied = NoPattern THEN RngAfter(rng, PatLen) ELSE rng
           /\ given' = [given EXCEPT ![i] = (supplied # NoPattern)]
           /\ initial_value' = [initial_value EXCEPT ![i] = initial]
           /\ results' = [initial_mean_abs |-> mean_abs(initial),
                          initial_variance |-> np_var(initial)]
           /\ heap' = CopyInto(h0, "init", "flat")
           /\ flat_pattern' = CopyTarget("init", "flat")
    /\ flat_accum' = 0
    /\ dilated_accum' = 0
    /\ dilated_pattern' = "init"
    /\ ext' = 0
    /\ inner' = 0
    /\ lastCall' = NoCall
    /\ stepDist' = 0
    /\ cur' = i
    /\ pc' = "flat"
    /\ status' = [status EXCEPT ![i] = "running"]
    /\ UNCHANGED <<transform, sims, suppliable, sim, result, error, calls>>

\* the exception leaves run_simulation: every local is gone
Unwind(i, exc, res) ==
    /\ status' = [status EXCEPT ![i] = "raised"]
    /\ error' = [error EXCEPT ![i] = exc]
    /\ result' = [result EXCEPT ![i] = res]
    /\ cur' = "none"
    /\ pc' = "idle"
    /\ heap' = EmptyHeap
    /\ flat_pattern' = "init"
    /\ dilated_pattern' = "init"
    /\ flat_accum' = 0
    /\ dilated_accum' = 0
    /\ ext' = 0
    /\ inner' = 0
    /\ results' = <<>>

\* lines 67-72: one iteration of the flat loop
FlatStep ==
    /\ pc = "flat"
    /\ ext < ExternalLimit(sim[cur].num_external_steps)
    /\ \E o \in propagate_vibration(transform, heap, flat_pattern, flat_distance) :
         /\ calls' = [calls EXCEPT ![cur].flat = @ + 1]
         /\ lastCall' = [zone |-> "flat", distance |-> flat_distance,
                         position_ratio |-> flat_position_ratio,
                         out |-> IF o.raised THEN NoPattern ELSE o.heap[o.ret],
                         raised |-> o.raised]
         /\ stepDist' = flat_distance
         /\ IF o.raised
            THEN Unwind(cur, "TransformError", Propagated(results))
            ELSE /\ flat_pattern' = o.ret
                 /\ heap' = Collect(o.heap, {"init", o.ret})
                 /\ flat_accum' = Accumulate(flat_accum, StepStatistic(o.heap[o.ret]))
                 /\ ext' = ext + 1
                 /\ UNCHANGED <<status, error, result, cur, pc, dilated_pattern,
                                dilated_accum, inner, results>>
    /\ UNCHANGED <<transform, sims, suppliable, sim, rng, given, initial_value>>

\* lines 74-83: the flat loop is over; record the flat zone, copy again
FlatEnd ==
    /\ pc = "flat"
    /\ ext >= ExternalLimit(sim[cur].num_external_steps)
    /\ results' = results @@ [flat |-> ZoneResult(heap[flat_pattern], flat_accum)]
    /\ heap' = Collect(CopyInto(heap, "init", "dil"), {"init", CopyTarget("init", "dil")})
    /\ dilated_pattern' = CopyTarget("init", "dil")
    /\ dilated_accum' = 0
    /\ ext' = 0
    /\ inner' = 0
    /\ stepDist' = 0
    /\ pc' = "dilated"
    /\ UNCHANGED <<transform, sims, suppliable, sim, rng, status, result, error, cur, flat_pattern,
                   flat_accum, given, initial_value, calls, lastCall>>

\* lines 84-90: one iteration of the inner loop
DilatedStep ==
    /\ pc = "dilated"
    /\ ext < ExternalLimit(sim[cur].num_external_steps)
    /\ inner < InnerLimit(sim[cur].dilation_factor)
    /\ LET dist == dilated_distance(sim[cur].dilation_factor)
       IN \E o \in propagate_vibration(transform, heap, dilated_pattern, dist) :
         /\ calls' = [calls EXCEPT ![cur].dilated = @ + 1]
         /\ lastCall' = [zone |-> "dilated", distance |-> dist,
                         position_ratio |-> dilated_position_ratio,
                         out |-> IF o.raised THEN NoPattern ELSE o.heap[o.ret],
                         raised |-> o.raised]
         /\ stepDist' = FAdd(stepDist, dist)
         /\ IF o.raised
            THEN Unwind(cur, "TransformError", Propagated(results))
            ELSE /\ dilated_pattern' = o.ret
                 /\ heap' = Collect(o.heap, {"init", o.ret})
                 /\ dilated_accum' = Accumulate(dilated_accum, StepStatistic(o.heap[o.ret]))
                 /\ inner' = inner + 1
                 /\ UNCHANGED <<status, error, result, cur, pc, ext, results,
                                flat_pattern, flat_accum>>
    /\ UNCHANGED <<transform, sims, suppliable, sim, rng, given, initial_value>>

\* line 83-84: the inner loop is over; next external step
DilatedNext ==
    /\ pc = "dilated"
    /\ ext < ExternalLimit(sim[cur].num_external_steps)
    /\ inner >= InnerLimit(sim[cur].dilation_factor)
    /\ ext' = ext + 1
    /\ inner' = 0
    /\ stepDist' = 0
    /\ UNCHANGED <<transform, sims, suppliable, sim, rng, status, result, error, cur, pc, heap,
                   flat_pattern, dilated_pattern, flat_accum, dilated_accum, results,
                   given, initial_value, calls, lastCall>>

\* lines 92-100: the ratio, the dilated zone, return
Finish ==
    /\ pc = "dilated"
    /\ ext >= ExternalLimit(sim[cur].num_external_steps)
    /\ LET ratio == performance_ratio(dilated_accum, flat_accum)
           full  == results @@
                    [dilated |-> ZoneResult(heap[dilated_pattern], dilated_accum)
                                 @@ [performance_ratio_vs_flat |-> ratio]]
       IN  IF ratio.err
           THEN Unwind(cur, "ZeroDivisionError", Propagated(results))
           ELSE /\ result' = [result EXCEPT ![cur] = [returned |-> TRUE] @@ full]
                /\ status' = [status EXCEPT ![cur] = "returned"]
                /\ results' = <<>>
                /\ heap' = Collect(heap, {"init"})
                /\ cur' = "none"
                /\ pc' = "idle"
                /\ flat_pattern' = "init"
                /\ dilated_pattern' = "init"
                /\ flat_accum' = 0
                /\ dilated_accum' = 0
                /\ ext' = 0
                /\ inner' = 0
                /\ UNCHANGED error
    /\ UNCHANGED <<transform, sims, suppliable, sim, rng, given, initial_value, calls, lastCall,
                   stepDist>>

Next ==
    \/ \E i \in sims, n \in 0..MaxN, d \in 0..MaxD, sd \in Seeds : Construct(i, n, d, sd)
    \/ \E i \in sims, supplied \in suppliable : RunBegin(i, supplied)
    \/ FlatStep
    \/ FlatEnd
    \/ DilatedStep
    \/ DilatedNext
    \/ Finish

Spec == Init /\ [][Next]_vars
SpecTwo == InitTwo /\ [][Next]_vars

\* ===================================================================== claims
NumSteps(i) == sim[i].num_external_steps
Dilation(i) == sim[i].dilation_factor
FlatAccum(i) == result[i].flat.accumulated_computation
DilatedAccum(i) == result[i].dilated.accumulated_computation
PerformanceRatio(i) == result[i].dilated.performance_ratio_vs_flat

\* mean_abs + sqrt(variance + epsilon) of the initial pattern, from the result record
InitialStatistic(i) ==
    FAdd(result[i].initial_mean_abs, FSqrt(FAdd(result[i].initial_variance, Epsilon)))

\* s added k times to 0.0, one rounded addition after the other
RECURSIVE RepSum(_, _)
RepSum(st, k) == IF k <= 0 THEN 0 ELSE FAdd(RepSum(st, k - 1), st)

\* every multiple of s up to k * s is representable
AllExact(st, k) == \A j \in 1..k : RoundRat(j * st, 1) = j * st

IsPowerOfTwo(d) == \E k \in 0..d : 2^k = d

\* C1: a run that returns, with N >= 1 and D >= 1, has invoked the transform
\* exactly N times in the flat zone and exactly N * D times in the dilated zone.
C1_InvocationCounts ==
    \A i \in sims :
        (status[i] = "returned" /\ NumSteps(i) >= 1 /\ Dilation(i) >= 1)
            => /\ calls[i].flat = NumSteps(i)
               /\ calls[i].dilated = NumSteps(i) * Dilation(i)

C1_Witness ==
    /\ transform = "arbitrary"
    /\ status["A"] = "returned"
    /\ NumSteps("A") >= 2
    /\ Dilation("A") >= 2
    /\ calls["A"].dilated = NumSteps("A") * Dilation("A")

C4_ValidatedConstruction ==
    \A i \in sims :
        sim[i].constructed => (NumSteps(i) >= 1 /\ Dilation(i) >= 1)

\* C5: two simulators constructed with the same seed and parameters, run without
\* a supplied pattern on a collaborator without randomness, return identical
\* results whatever the order of the two constructions and the two runs.
C5_SameSeedSameResult ==
    (/\ status["A"] = "returned"
     /\ status["B"] = "returned"
     /\ sim["A"] = sim["B"]
     /\ NumSteps("A") >= 1
     /\ Dilation("A") >= 1
     /\ ~ given["A"]
     /\ ~ given["B"])
        => result["A"] = result["B"]

\* C6: each zone starts from a value-equal copy of the initial pattern, whatever
\* the transform did to the flat zone's working array, and the caller's array
\* holds its original values throughout the run and when the run returns.
C6_IndependentCopies ==
    /\ [](cur # "none" =>
            /\ heap["init"] = initial_value[cur]
            /\ (pc = "flat" /\ calls[cur].flat = 0) =>
                  heap[flat_pattern] = initial_value[cur]
            /\ (pc = "dilated" /\ calls[cur].dilated = 0) =>
                  heap[dilated_pattern] = initial_value[cur])
    /\ [][(cur # "none" /\ status'[cur] = "returned") =>
            heap'["init"] = initial_value[cur]]_vars

C6_Witness ==
    /\ transform = "inplace"
    /\ pc = "dilated"
    /\ calls["A"].flat >= 2
    /\ calls["A"].dilated = 0
    /\ results.flat.final_mean_abs # results.initial_mean_abs
    /\ heap[dilated_pattern] = initial_value["A"]

\* C7: the pattern a simulator generates is the first draw after its own seed,
\* whatever other simulators were constructed or run in between.
C7_InstanceOwnedGenerator ==
    \A i \in sims :
        (status[i] \in {"running", "returned", "raised"} /\ ~ given[i])
            => initial_value[i] = generate_initial_pattern(SeedState(sim[i].seed))

\* the trace conjuncts C8 and its amendment share
TraceShape ==
    /\ [](/\ lastCall.zone = "flat" =>
               /\ lastCall.distance = Unit
               /\ lastCall.position_ratio = flat_position_ratio
          /\ (lastCall.zone = "dilated" /\ cur # "none") =>
               /\ lastCall.distance = FDiv(Unit, Dilation(cur) * Unit)
               /\ lastCall.position_ratio = dilated_position_ratio
               /\ calls[cur].flat = NumSteps(cur)
               /\ calls[cur].dilated <= NumSteps(cur) * Dilation(cur)
          /\ \A i \in sims : status[i] = "returned" =>
               /\ calls[i].flat = NumSteps(i)
               /\ calls[i].dilated = NumSteps(i) * Dilation(i))
    /\ [][/\ (lastCall.zone = "dilated" /\ cur' = cur) => lastCall'.zone = "dilated"
          /\ (cur # "none" /\ calls'[cur].flat # calls[cur].flat
                /\ lastCall.zone = "flat") => heap[flat_pattern] = lastCall.out
          /\ (cur # "none" /\ calls'[cur].dilated # calls[cur].dilated
                /\ lastCall.zone = "dilated") => heap[dilated_pattern] = lastCall.out]_vars

EndOfExternalStep ==
    /\ pc = "dilated"
    /\ Dilation(cur) >= 1
    /\ ext < NumSteps(cur)
    /\ inner = Dilation(cur)

\* C8 as stated: N calls with distance 1.0 and the flat position ratio, then
\* N * D calls with distance 1.0 / D and the dilated position ratio, each fed the
\* previous output of its zone, and the D distances of one external step sum to 1.0.
C8_Original ==
    /\ TraceShape
    /\ [](EndOfExternalStep => stepDist = Unit)

\* C8 amended: the same trace; the D distances of one external step are each the
\* rounded quotient 1.0 / D, and they sum to 1.0 exactly when D is a power of two.
C8_TraceOrder ==
    /\ TraceShape
    /\ [](EndOfExternalStep =>
            /\ stepDist = RepSum(FDiv(Unit, Dilation(cur) * Unit), Dilation(cur))
            /\ IsPowerOfTwo(Dilation(cur)) => stepDist = Unit)

C8_Witness ==
    /\ transform = "arbitrary"
    /\ EndOfExternalStep
    /\ Dilation("A") = 2
    /\ ext >= 1
    /\ lastCall.distance = Unit \div 2
    /\ stepDist = Unit

\* C9: once a transform invocation has failed, the run makes no further
\* invocation, the failure leaves run_simulation as the transform raised it, and
\* the caller holds no result, not even a partial one.
C9_FailurePropagates ==
    /\ [](\A i \in sims : status[i] = "raised" =>
            /\ result[i] = NoResult
            /\ error[i] = "TransformError")
    /\ [][\A i \in sims :
            /\ status[i] = "raised" =>
                 /\ calls'[i] = calls[i]
                 /\ status'[i] = "raised"
                 /\ result'[i] = NoResult
            /\ (calls'[i] # calls[i] /\ lastCall'.raised) =>
                 /\ status'[i] = "raised"
                 /\ cur' = "none"]_vars

C9_Witness ==
    /\ status["A"] = "raised"
    /\ lastCall.zone = "dilated"
    /\ lastCall.raised
    /\ calls["A"].flat >= 1
    /\ calls["A"].dilated >= 2
    /\ result["A"] = NoResult

\* C10: each zone's accumulator is 0 before the zone's first invocation, grows by
\* the step statistic of the pattern each invocation produces, never decreases,
\* and its value after the last invocation is the reported accumulated_computation.
C10_Accumulator ==
    /\ [](cur # "none" =>
            /\ (pc = "flat" /\ calls[cur].flat = 0) => flat_accum = 0
            /\ (pc = "dilated" /\ calls[cur].dilated = 0) => dilated_accum = 0)
    /\ [][cur # "none" =>
            /\ (calls'[cur].flat # calls[cur].flat /\ ~ lastCall'.raised) =>
                 /\ flat_accum' = FAdd(flat_accum,
                        FAdd(mean_abs(lastCall'.out),
                             FSqrt(FAdd(np_var(lastCall'.out), Epsilon))))
                 /\ flat_accum' >= flat_accum
            /\ (calls'[cur].dilated # calls[cur].dilated /\ ~ lastCall'.raised) =>
                 /\ dilated_accum' = FAdd(dilated_accum,
                        FAdd(mean_abs(lastCall'.out),
                             FSqrt(FAdd(np_var(lastCall'.out), Epsilon))))
                 /\ dilated_accum' >= dilated_accum
            /\ (pc = "flat" /\ pc' = "dilated") =>
                 results'.flat.accumulated_computation = flat_accum
            /\ status'[cur] = "returned" =>
                 /\ result'[cur].flat.accumulated_computation = flat_accum
                 /\ result'[cur].dilated.accumulated_computation = dilated_accum]_vars

C10_Witness ==
    /\ transform = "arbitrary"
    /\ status["A"] = "returned"
    /\ calls["A"].dilated >= 4
    /\ DilatedAccum("A") > FlatAccum("A")
    /\ FlatAccum("A") > StepStatistic(lastCall.out)

====
